---- MODULE Spec2Model ----
(***************************************************************************)
(* Hot state generation of the beacon node (beacon-chain/stategen/hot.go)  *)
(* over a block store that holds a tree of blocks.                         *)
(*                                                                         *)
(* A block root is the position of the block in the order the store       *)
(* received it (1 = genesis); ZeroRoot is the all-zero hash.  A beacon     *)
(* state is the pair of its slot and the list of block roots applied to    *)
(* the genesis state to obtain it.                                         *)
(*                                                                         *)
(* The database starts with the genesis block and the genesis state.       *)
(* Blocks arrive one by one, each on a parent already stored.  The block   *)
(* processor calls saveHotState(root, state) with the post state of a      *)
(* stored block, once the state of its parent has been saved.              *)
(*                                                                         *)
(* Spec       the operations of hot.go, each taken as a whole, on a        *)
(*            database that serves every call                              *)
(* SpecSteps  saveHotState taken one database call at a time, each call    *)
(*            free to fail                                                 *)
(* SpecBlocks LoadBlocks on every window and end root of the block tree    *)
(* SpecSplit  the hot path while finalization moves the split slot        *)
(* SpecPar    two saveHotState calls in parallel, one access at a time     *)
(***************************************************************************)
EXTENDS Integers, Sequences, FiniteSets, TLC

\* Bounds of the model.
MaxBlocks == 4
MaxSlot == 4
SlotsPerEpoch == 2
MaxParBlocks == 3

ZeroRoot == 0
GenesisRoot == 1

VARIABLES
    blocks,                   \* beaconDB blocks: root -> [slot, parent], in insertion order
    states,                   \* beaconDB states: root -> state
    summaries,                \* beaconDB hot state summaries: root -> summary
    epochBoundarySlotToRoot,  \* State.epochBoundarySlotToRoot
    splitSlot,                \* State.splitInfo.slot
    call,                     \* the saveHotState call in progress, step by step
    result                    \* what the last operation returned to its caller

vars == <<blocks, states, summaries, epochBoundarySlotToRoot, splitSlot, call, result>>

Slots == 0..MaxSlot
Roots == DOMAIN blocks

None == [kind |-> "none"]
Absent == [slot |-> -1, applied |-> <<>>]

\* helpers.IsEpochStart, helpers.StartSlot(helpers.SlotToEpoch(slot))
IsEpochStart(slot) == slot % SlotsPerEpoch = 0
EpochStart(slot) == (slot \div SlotsPerEpoch) * SlotsPerEpoch

(***************************************************************************)
(* The chain itself: ancestry of a block and the state it produces.        *)
(***************************************************************************)
RECURSIVE Ancestry(_)
\* roots from the block next to genesis down to r, oldest first
Ancestry(r) ==
    IF r = ZeroRoot \/ r = GenesisRoot THEN <<>>
    ELSE Append(Ancestry(blocks[r].parent), r)

\* r itself or one of its ancestors
IsAncestorOrSelf(a, r) ==
    a = r \/ (a = GenesisRoot /\ r # ZeroRoot) \/ \E i \in DOMAIN Ancestry(r) : Ancestry(r)[i] = a

GenesisState == [slot |-> 0, applied |-> <<>>]

\* the state the caller hands to saveHotState with block root r
PostState(r) == [slot |-> blocks[r].slot, applied |-> Ancestry(r)]

(***************************************************************************)
(* beaconDB                                                                *)
(***************************************************************************)
\* beaconDB.State: nil when no state is stored under the root
DBState(r) == IF r \in DOMAIN states THEN states[r] ELSE Absent

\* the roots stored at one slot, in insertion order
RootsAtSlot(slot) ==
    SelectSeq([i \in 1..Len(blocks) |-> i], LAMBDA r : blocks[r].slot = slot)

\* forgets the start slot of the filter
BlockRootsNoStart(startSlot, endSlot) ==
    SelectSeq([i \in 1..Len(blocks) |-> i], LAMBDA r : blocks[r].slot <= endSlot)

RECURSIVE BlockRoots(_, _)
\* beaconDB.BlockRoots with a start-slot / end-slot filter
BlockRoots(startSlot, endSlot) ==
    IF startSlot > endSlot THEN <<>>
    ELSE BlockRoots(startSlot, endSlot - 1) \o RootsAtSlot(endSlot)

InSeq(x, s) == \E i \in DOMAIN s : s[i] = x

(***************************************************************************)
(* LoadBlocks                                                              *)
(***************************************************************************)
RECURSIVE WalkParentsAnyCandidate(_, _, _, _)
\* keeps every candidate, whether or not it is the parent looked for
WalkParentsAnyCandidate(rs, i, cursor, out) ==
    IF i = 0 THEN out
    ELSE IF rs[i] # out[1]
         THEN WalkParentsAnyCandidate(rs, i - 1, cursor, Append(out, rs[i]))
         ELSE WalkParentsAnyCandidate(rs, i - 1, cursor, out)

RECURSIVE WalkParentsAdjacent(_, _, _, _)
\* gives up at the first candidate below the end block that is not the
\* parent looked for
WalkParentsAdjacent(rs, i, cursor, out) ==
    IF i = 0 THEN out
    ELSE IF rs[i] = cursor
         THEN WalkParentsAdjacent(rs, i - 1, blocks[rs[i]].parent, Append(out, rs[i]))
         ELSE IF blocks[rs[i]].slot < blocks[out[1]].slot THEN out
         ELSE WalkParentsAdjacent(rs, i - 1, cursor, out)

RECURSIVE WalkParents(_, _, _, _)
\* one pass over the candidates from the highest slot downward, keeping
\* the candidate whose root is the parent root of the last block kept
WalkParents(rs, i, cursor, out) ==
    IF i = 0 THEN out
    ELSE IF rs[i] = cursor
         THEN WalkParents(rs, i - 1, blocks[rs[i]].parent, Append(out, rs[i]))
         ELSE WalkParents(rs, i - 1, cursor, out)

\* walks from the end block without looking for it among the candidates
LoadBlocksNoEndCheck(startSlot, endSlot, endBlockRoot) ==
    LET rs == BlockRoots(startSlot, endSlot) IN
    IF Len(rs) = 0 THEN [err |-> "NotFound", blks |-> <<>>]
    ELSE [err |-> "",
          blks |-> WalkParents(rs, Len(rs), blocks[endBlockRoot].parent,
                               <<endBlockRoot>>)]

LoadBlocks(startSlot, endSlot, endBlockRoot) ==
    LET rs == BlockRoots(startSlot, endSlot) IN
    IF Len(rs) = 0 THEN [err |-> "NotFound", blks |-> <<>>]
    ELSE IF ~InSeq(endBlockRoot, rs)
         THEN [err |-> "end block roots don't match", blks |-> <<>>]
         ELSE [err |-> "",
               blks |-> WalkParents(rs, Len(rs), blocks[endBlockRoot].parent,
                                    <<endBlockRoot>>)]

(***************************************************************************)
(* ReplayBlocks                                                            *)
(***************************************************************************)
\* the state transition of one block, after advancing the empty slots
\* before it
ExecuteStateTransition(state, r) ==
    [slot |-> blocks[r].slot, applied |-> Append(state.applied, r)]

\* advancing over empty slots
ProcessSlots(state, slot) == [state EXCEPT !.slot = slot]

RECURSIVE ApplyOldestFirst(_, _, _, _)
\* blks is leaf first: apply from its last element to its first, leaving
\* out the blocks that are not after the start state
ApplyOldestFirst(state, blks, i, startSlot) ==
    IF i = 0 THEN state
    ELSE ApplyOldestFirst(
            IF blocks[blks[i]].slot > startSlot
            THEN ExecuteStateTransition(state, blks[i]) ELSE state,
            blks, i - 1, startSlot)

ReplayBlocks(state, blks, targetSlot) ==
    LET s == ApplyOldestFirst(state, blks, Len(blks), state.slot) IN
    IF targetSlot < s.slot THEN [err |-> "ReplayPastTarget", state |-> Absent]
    ELSE [err |-> "", state |-> ProcessSlots(s, targetSlot)]

(***************************************************************************)
(* The epoch boundary resolver.  The operators take the database states    *)
(* and the cache they run on, and return the ones they leave.              *)
(***************************************************************************)
NilDeref == "panic: nil pointer dereference"
IndexOutOfRange == "panic: index out of range"

\* s.epochBoundaryRoot(slot): the zero root on a miss
EpochBoundaryRoot(cache, slot) ==
    IF slot \in DOMAIN cache THEN cache[slot] ELSE ZeroRoot

\* s.setEpochBoundaryRoot(slot, r)
SetEpochBoundaryRoot(cache, slot, r) ==
    [s \in DOMAIN cache \cup {slot} |-> IF s = slot THEN r ELSE cache[s]]

\* beaconDB.SaveState(state, r)
SaveState(st, r, state) ==
    [k \in DOMAIN st \cup {r} |-> IF k = r THEN state ELSE st[k]]

HandleLastValidState(st, cache, slot) ==
    LET rs == BlockRoots(splitSlot, slot)
        fail(e) == [err |-> e, root |-> ZeroRoot, states |-> st]
    IN
    IF Len(rs) = 0 THEN fail(IndexOutOfRange)
    ELSE
      LET lastRoot == rs[Len(rs)]
          r == EpochBoundaryRoot(cache, slot - SlotsPerEpoch)
          startState == IF r \in DOMAIN st THEN st[r] ELSE Absent
      IN
      IF startState = Absent THEN fail(NilDeref)
      ELSE
        LET l == LoadBlocks(startState.slot + 1, slot, lastRoot) IN
        IF l.err # "" THEN fail(l.err)
        ELSE
          LET p == ReplayBlocks(startState, l.blks, slot) IN
          IF p.err # "" THEN fail(p.err)
          ELSE [err |-> "", root |-> lastRoot, states |-> SaveState(st, lastRoot, p.state)]

\* takes the first root at the boundary slot when the slot holds several
LoadEpochBoundaryRootTakesFirst(st, cache, blockRoot, state) ==
    LET epochBoundarySlot == (state.slot \div SlotsPerEpoch) * SlotsPerEpoch
        rs == BlockRoots(epochBoundarySlot, epochBoundarySlot)
    IN
    IF epochBoundarySlot \in DOMAIN cache
    THEN [err |-> "", root |-> cache[epochBoundarySlot], states |-> st, cache |-> cache]
    ELSE IF state.slot = epochBoundarySlot
    THEN [err |-> "", root |-> blockRoot, states |-> st, cache |-> cache]
    ELSE IF epochBoundarySlot = 0
    THEN [err |-> "", root |-> GenesisRoot, states |-> st,
          cache |-> SetEpochBoundaryRoot(cache, epochBoundarySlot, GenesisRoot)]
    ELSE IF Len(rs) >= 1
    THEN [err |-> "", root |-> rs[1], states |-> st,
          cache |-> SetEpochBoundaryRoot(cache, epochBoundarySlot, rs[1])]
    ELSE LET h == HandleLastValidState(st, cache, epochBoundarySlot) IN
         IF h.err # ""
         THEN [err |-> h.err, root |-> ZeroRoot, states |-> st, cache |-> cache]
         ELSE [err |-> "", root |-> h.root, states |-> h.states,
               cache |-> SetEpochBoundaryRoot(cache, epochBoundarySlot, h.root)]

\* resolves the boundary again on a cache hit and overwrites the entry
LoadEpochBoundaryRootNoCacheHit(st, cache, blockRoot, state) ==
    LET epochBoundarySlot == (state.slot \div SlotsPerEpoch) * SlotsPerEpoch
        rs == BlockRoots(epochBoundarySlot, epochBoundarySlot)
        fail(e) == [err |-> e, root |-> ZeroRoot, states |-> st, cache |-> cache]
    IN
    IF state.slot = epochBoundarySlot
    THEN [err |-> "", root |-> blockRoot, states |-> st, cache |-> cache]
    ELSE IF epochBoundarySlot = 0
    THEN [err |-> "", root |-> GenesisRoot, states |-> st,
          cache |-> SetEpochBoundaryRoot(cache, epochBoundarySlot, GenesisRoot)]
    ELSE IF Len(rs) = 0
    THEN LET h == HandleLastValidState(st, cache, epochBoundarySlot) IN
         IF h.err # "" THEN fail(h.err)
         ELSE [err |-> "", root |-> h.root, states |-> h.states,
               cache |-> SetEpochBoundaryRoot(cache, epochBoundarySlot, h.root)]
    ELSE IF Len(rs) = 1
    THEN [err |-> "", root |-> rs[1], states |-> st,
          cache |-> SetEpochBoundaryRoot(cache, epochBoundarySlot, rs[1])]
    ELSE fail("incorrect length for epoch boundary root")

\* caches the root of the block being saved instead of the boundary root
\* it returns
LoadEpochBoundaryRootCachesOwnRoot(st, cache, blockRoot, state) ==
    LET epochBoundarySlot == (state.slot \div SlotsPerEpoch) * SlotsPerEpoch
        rs == BlockRoots(epochBoundarySlot, epochBoundarySlot)
    IN
    IF epochBoundarySlot \in DOMAIN cache
    THEN [err |-> "", root |-> cache[epochBoundarySlot], states |-> st, cache |-> cache]
    ELSE IF state.slot = epochBoundarySlot
    THEN [err |-> "", root |-> blockRoot, states |-> st, cache |-> cache]
    ELSE IF epochBoundarySlot = 0
    THEN [err |-> "", root |-> GenesisRoot, states |-> st,
          cache |-> SetEpochBoundaryRoot(cache, epochBoundarySlot, blockRoot)]
    ELSE IF Len(rs) = 1
    THEN [err |-> "", root |-> rs[1], states |-> st,
          cache |-> SetEpochBoundaryRoot(cache, epochBoundarySlot, blockRoot)]
    ELSE [err |-> "incorrect length for epoch boundary root", root |-> ZeroRoot,
          states |-> st, cache |-> cache]

LoadEpochBoundaryRoot(st, cache, blockRoot, state) ==
    LET epochBoundarySlot == (state.slot \div SlotsPerEpoch) * SlotsPerEpoch
        fail(e) == [err |-> e, root |-> ZeroRoot, states |-> st, cache |-> cache]
    IN
    IF epochBoundarySlot \in DOMAIN cache
    THEN [err |-> "", root |-> cache[epochBoundarySlot], states |-> st, cache |-> cache]
    ELSE IF state.slot = epochBoundarySlot
    THEN [err |-> "", root |-> blockRoot, states |-> st, cache |-> cache]
    ELSE IF epochBoundarySlot = 0
    THEN [err |-> "", root |-> GenesisRoot, states |-> st,
          cache |-> SetEpochBoundaryRoot(cache, epochBoundarySlot, GenesisRoot)]
    ELSE
      LET rs == BlockRoots(epochBoundarySlot, epochBoundarySlot) IN
      IF Len(rs) = 0
      THEN LET h == HandleLastValidState(st, cache, epochBoundarySlot) IN
           IF h.err # "" THEN fail(h.err)
           ELSE [err |-> "", root |-> h.root, states |-> h.states,
                 cache |-> SetEpochBoundaryRoot(cache, epochBoundarySlot, h.root)]
      ELSE IF Len(rs) = 1
      THEN [err |-> "", root |-> rs[1], states |-> st,
            cache |-> SetEpochBoundaryRoot(cache, epochBoundarySlot, rs[1])]
      ELSE fail("incorrect length for epoch boundary root")

(***************************************************************************)
(* The hot path                                                            *)
(***************************************************************************)
\* beaconDB.SaveHotStateSummary
SaveHotStateSummary(sm, summary) ==
    [k \in DOMAIN sm \cup {summary.latestRoot} |->
        IF k = summary.latestRoot THEN summary ELSE sm[k]]

StoreError == "StoreError"
Idle == [pc |-> "idle"]

\* the frame of a saveHotState(blockRoot, state) call at its entry; sm are
\* the summaries the call found
EnterSaveHotState(blockRoot, state, sm) ==
    [pc |-> IF IsEpochStart(state.slot) THEN "SaveState" ELSE "loadEpochBoundaryRoot",
     blockRoot |-> blockRoot, state |-> state,
     epochRoot |-> ZeroRoot, err |-> "", entry |-> sm]

\* goes on to the summary after a failed state write
SaveHotStateStepIgnoresError(c, st, sm, cache, ok) ==
    IF c.pc = "SaveState"
    THEN [call |-> [c EXCEPT !.pc = "loadEpochBoundaryRoot"],
          states |-> IF ok THEN SaveState(st, c.blockRoot, c.state) ELSE st,
          summaries |-> sm, cache |-> cache]
    ELSE IF c.pc = "loadEpochBoundaryRoot"
    THEN LET e == LoadEpochBoundaryRoot(st, cache, c.blockRoot, c.state) IN
         IF e.err # ""
         THEN [call |-> [c EXCEPT !.pc = "return", !.err = e.err],
               states |-> e.states, summaries |-> sm, cache |-> e.cache]
         ELSE [call |-> [c EXCEPT !.pc = "SaveHotStateSummary", !.epochRoot = e.root],
               states |-> e.states, summaries |-> sm, cache |-> e.cache]
    ELSE [call |-> [c EXCEPT !.pc = "return"], states |-> st, cache |-> cache,
          summaries |-> SaveHotStateSummary(sm,
              [slot |-> c.state.slot, latestRoot |-> c.blockRoot,
               boundaryRoot |-> c.epochRoot])]

\* one step of saveHotState: the state write on an epoch start, the
\* boundary resolver, the summary write.  ok tells whether the database
\* serves the step or fails it.
SaveHotStateStep(c, st, sm, cache, ok) ==
    LET return(e) == [call |-> [c EXCEPT !.pc = "return", !.err = e],
                      states |-> st, summaries |-> sm, cache |-> cache]
    IN
    IF c.pc = "SaveState"
    THEN IF ~ok THEN return(StoreError)
         ELSE [call |-> [c EXCEPT !.pc = "loadEpochBoundaryRoot"],
               states |-> SaveState(st, c.blockRoot, c.state),
               summaries |-> sm, cache |-> cache]
    ELSE IF c.pc = "loadEpochBoundaryRoot"
    THEN IF ~ok THEN return(StoreError)
         ELSE LET e == LoadEpochBoundaryRoot(st, cache, c.blockRoot, c.state) IN
              IF e.err # ""
              THEN [call |-> [c EXCEPT !.pc = "return", !.err = e.err],
                    states |-> e.states, summaries |-> sm, cache |-> e.cache]
              ELSE [call |-> [c EXCEPT !.pc = "SaveHotStateSummary", !.epochRoot = e.root],
                    states |-> e.states, summaries |-> sm, cache |-> e.cache]
    ELSE IF ~ok THEN return(StoreError)
    ELSE [call |-> [c EXCEPT !.pc = "return"], states |-> st, cache |-> cache,
          summaries |-> SaveHotStateSummary(sm,
              [slot |-> c.state.slot, latestRoot |-> c.blockRoot,
               boundaryRoot |-> c.epochRoot])]

RECURSIVE RunSaveHotState(_, _, _, _)
\* the steps of one call to its return, on a database that serves them all
RunSaveHotState(c, st, sm, cache) ==
    IF c.pc = "return"
    THEN [err |-> c.err, states |-> st, summaries |-> sm, cache |-> cache]
    ELSE LET n == SaveHotStateStep(c, st, sm, cache, TRUE) IN
         RunSaveHotState(n.call, n.states, n.summaries, n.cache)

\* what saveHotState(blockRoot, state) returns and leaves behind
SaveHotStateOn(st, sm, cache, blockRoot, state) ==
    RunSaveHotState(EnterSaveHotState(blockRoot, state, sm), st, sm, cache)

LoadHotStateByRoot(blockRoot) ==
    LET fail(e) == [err |-> e, state |-> Absent] IN
    IF blockRoot \notin DOMAIN summaries THEN fail("nil hot state summary")
    ELSE
      LET summary == summaries[blockRoot]
          targetSlot == summary.slot
          boundaryState == DBState(summary.boundaryRoot)
      IN
      IF boundaryState = Absent THEN fail("boundary state can't be nil")
      ELSE IF IsEpochStart(targetSlot) THEN [err |-> "", state |-> boundaryState]
      ELSE
        LET l == LoadBlocks(boundaryState.slot + 1, targetSlot, summary.latestRoot) IN
        IF l.err # "" THEN fail(l.err)
        ELSE ReplayBlocks(boundaryState, l.blks, targetSlot)

GetLastValidBlock(targetSlot) ==
    LET rs == BlockRoots(splitSlot, targetSlot) IN
    IF Len(rs) = 0 THEN [err |-> IndexOutOfRange, root |-> ZeroRoot, slot |-> 0]
    ELSE [err |-> "", root |-> rs[Len(rs)], slot |-> blocks[rs[Len(rs)]].slot]

LoadHotIntermediateStateWithSlot(cache, slot) ==
    LET fail(e) == [err |-> e, state |-> Absent]
        epochBoundarySlot == EpochStart(slot)
    IN
    IF epochBoundarySlot \notin DOMAIN cache THEN fail("epoch boundary root is not cached")
    ELSE
      LET epochBoundaryState == DBState(cache[epochBoundarySlot])
          v == GetLastValidBlock(slot)
      IN
      IF v.err # "" THEN fail(v.err)
      ELSE IF epochBoundaryState = Absent THEN fail(NilDeref)
      ELSE
        LET l == LoadBlocks(epochBoundaryState.slot + 1, v.slot, v.root) IN
        IF l.err # "" THEN fail(l.err)
        ELSE ReplayBlocks(epochBoundaryState, l.blks, slot)

HotStateExists(blockRoot) == blockRoot \in DOMAIN summaries

(***************************************************************************)
(* Actions                                                                 *)
(***************************************************************************)
Init ==
    /\ blocks = <<[slot |-> 0, parent |-> ZeroRoot]>>
    /\ states = (GenesisRoot :> GenesisState)
    /\ summaries = <<>>
    /\ epochBoundarySlotToRoot = <<>>
    /\ splitSlot = 0
    /\ call = Idle
    /\ result = None

\* beaconDB.SaveBlock: a block arrives whose parent is in the store
SaveBlock ==
    /\ result = None
    /\ Len(blocks) < MaxBlocks
    /\ \E p \in Roots : \E s \in Slots :
          /\ s > blocks[p].slot
          /\ blocks' = Append(blocks, [slot |-> s, parent |-> p])
    /\ UNCHANGED <<states, summaries, epochBoundarySlotToRoot, splitSlot, call, result>>

\* the caller takes the result of its call
Return ==
    /\ result # None
    /\ result' = None
    /\ UNCHANGED <<blocks, states, summaries, epochBoundarySlotToRoot, splitSlot, call>>

CallLoadBlocks ==
    /\ result = None
    /\ \E startSlot \in Slots, endSlot \in Slots, r \in Roots :
          result' = [kind |-> "LoadBlocks", startSlot |-> startSlot, endSlot |-> endSlot,
                     root |-> r, out |-> LoadBlocks(startSlot, endSlot, r)]
    /\ UNCHANGED <<blocks, states, summaries, epochBoundarySlotToRoot, splitSlot, call>>

\* the block processor saves the post state of a block it has the parent
\* state of
HasParentState(r) ==
    \/ r = GenesisRoot
    \/ blocks[r].parent = GenesisRoot
    \/ blocks[r].parent \in DOMAIN summaries

CallSaveHotState ==
    /\ result = None
    /\ \E r \in Roots :
          /\ HasParentState(r)
          /\ LET o == SaveHotStateOn(states, summaries, epochBoundarySlotToRoot,
                                     r, PostState(r))
             IN /\ states' = o.states
                /\ summaries' = o.summaries
                /\ epochBoundarySlotToRoot' = o.cache
                /\ result' = [kind |-> "saveHotState", root |-> r, err |-> o.err]
    /\ UNCHANGED <<blocks, splitSlot, call>>

CallLoadHotStateByRoot ==
    /\ result = None
    /\ \E r \in Roots :
          result' = [kind |-> "loadHotStateByRoot", root |-> r,
                     out |-> LoadHotStateByRoot(r)]
    /\ UNCHANGED <<blocks, states, summaries, epochBoundarySlotToRoot, splitSlot, call>>

\* resolves the boundary of the slot on a cache miss, as saveHotState does
CallLoadHotIntermediateStateWithSlotResolves ==
    /\ result = None
    /\ \E slot \in Slots :
          LET e == LoadEpochBoundaryRoot(states, epochBoundarySlotToRoot, ZeroRoot,
                                         [slot |-> slot, applied |-> <<>>])
          IN /\ states' = e.states
             /\ epochBoundarySlotToRoot' = e.cache
             /\ result' = [kind |-> "loadHotIntermediateStateWithSlot", slot |-> slot,
                           out |-> LoadHotIntermediateStateWithSlot(e.cache, slot)]
    /\ UNCHANGED <<blocks, summaries, splitSlot, call>>

CallLoadHotIntermediateStateWithSlot ==
    /\ result = None
    /\ \E slot \in Slots :
          result' = [kind |-> "loadHotIntermediateStateWithSlot", slot |-> slot,
                     out |-> LoadHotIntermediateStateWithSlot(epochBoundarySlotToRoot, slot)]
    /\ UNCHANGED <<blocks, states, summaries, epochBoundarySlotToRoot, splitSlot, call>>

CallHotStateExists ==
    /\ result = None
    /\ \E r \in Roots :
          result' = [kind |-> "HotStateExists", root |-> r, out |-> HotStateExists(r)]
    /\ UNCHANGED <<blocks, states, summaries, epochBoundarySlotToRoot, splitSlot, call>>

Next ==
    \/ SaveBlock
    \/ CallSaveHotState
    \/ CallLoadHotStateByRoot
    \/ CallLoadHotIntermediateStateWithSlot
    \/ CallHotStateExists
    \/ Return

Spec == Init /\ [][Next]_vars

(***************************************************************************)
(* saveHotState step by step, on a database that may fail a call, while    *)
(* blocks keep arriving                                                    *)
(***************************************************************************)
BeginSaveHotState ==
    /\ call = Idle
    /\ \E r \in Roots :
          /\ HasParentState(r)
          /\ call' = EnterSaveHotState(r, PostState(r), summaries)
    /\ UNCHANGED <<blocks, states, summaries, epochBoundarySlotToRoot, splitSlot, result>>

StepSaveHotState ==
    /\ call # Idle
    /\ call.pc # "return"
    /\ \E ok \in BOOLEAN :
          LET n == SaveHotStateStep(call, states, summaries, epochBoundarySlotToRoot, ok)
          IN /\ call' = n.call
             /\ states' = n.states
             /\ summaries' = n.summaries
             /\ epochBoundarySlotToRoot' = n.cache
    /\ UNCHANGED <<blocks, splitSlot, result>>

ReturnSaveHotState ==
    /\ call # Idle
    /\ call.pc = "return"
    /\ call' = Idle
    /\ UNCHANGED <<blocks, states, summaries, epochBoundarySlotToRoot, splitSlot, result>>

NextSteps ==
    \/ SaveBlock
    \/ BeginSaveHotState
    \/ StepSaveHotState
    \/ ReturnSaveHotState

SpecSteps == Init /\ [][NextSteps]_vars

NextBlocks == SaveBlock \/ CallLoadBlocks \/ Return

SpecBlocks == Init /\ [][NextBlocks]_vars

(***************************************************************************)
(* The hot path while finalization moves the split slot                    *)
(***************************************************************************)
\* a finalization event replaces the split slot by the start slot of a
\* later epoch that the chain has gone past
Finalize ==
    /\ result = None
    /\ \E s \in Slots :
          /\ s > splitSlot
          /\ IsEpochStart(s)
          /\ \E r \in Roots : blocks[r].slot > s
          /\ splitSlot' = s
    /\ UNCHANGED <<blocks, states, summaries, epochBoundarySlotToRoot, call, result>>

NextSplit ==
    \/ SaveBlock
    \/ Finalize
    \/ CallSaveHotState
    \/ CallLoadHotIntermediateStateWithSlot
    \/ Return

SpecSplit == Init /\ [][NextSplit]_vars

(***************************************************************************)
(* Two saveHotState calls in parallel.  Each caller goes through its call  *)
(* one access at a time: a database read or write, the read of the cache   *)
(* map at the top of loadEpochBoundaryRoot, the getter                     *)
(* epochBoundaryRoot, and setEpochBoundaryRoot, which takes the lock and   *)
(* then writes the map.  In this specification call holds the store the    *)
(* two calls found (snap) and the frame of each caller (t).                *)
(***************************************************************************)
Callers == {1, 2}
Fatal == "fatal error: concurrent map read and map write"

ParEnter(blockRoot, state) ==
    [pc |-> IF IsEpochStart(state.slot) THEN "SaveState" ELSE "mapRead",
     blockRoot |-> blockRoot, state |-> state,
     r |-> ZeroRoot, start |-> ZeroRoot, st |-> Absent, err |-> ""]

\* the caller holds the lock of the cache: it is inside
\* setEpochBoundaryRoot, about to write the map
HoldsLock(c) == c.pc = "mapWrite"

\* c can take its next step: the getter and setEpochBoundaryRoot wait for
\* the lock, the map read at the top of loadEpochBoundaryRoot does not
ParEnabled(c, o) ==
    /\ c.pc \notin {"return", "fatal"}
    /\ c.pc \in {"handleLastValidState", "Lock"} => ~HoldsLock(o)

\* what the map read of c can meet: the map as it is; and, when the other
\* caller is writing the map, the map with that write done, or the
\* runtime's fatal error
ParSeen(c, o) ==
    IF c.pc = "mapRead" /\ HoldsLock(o) THEN {"old", "new", "fatal"} ELSE {"old"}

\* the next step of caller c
ParStep(c, o, st, sm, cache, seen) ==
    LET B == (c.state.slot \div SlotsPerEpoch) * SlotsPerEpoch
        to(f) == [frame |-> f, states |-> st, summaries |-> sm, cache |-> cache]
        return(e) == to([c EXCEPT !.pc = "return", !.err = e])
    IN
    IF c.pc = "SaveState"
    THEN [frame |-> [c EXCEPT !.pc = "mapRead"],
          states |-> SaveState(st, c.blockRoot, c.state),
          summaries |-> sm, cache |-> cache]
    ELSE IF c.pc = "mapRead"
    THEN LET view == IF seen = "new"
                     THEN SetEpochBoundaryRoot(cache,
                              (o.state.slot \div SlotsPerEpoch) * SlotsPerEpoch, o.r)
                     ELSE cache
         IN
         IF seen = "fatal" THEN to([c EXCEPT !.pc = "fatal", !.err = Fatal])
         ELSE IF B \in DOMAIN view
         THEN to([c EXCEPT !.pc = "SaveHotStateSummary", !.r = view[B]])
         ELSE IF c.state.slot = B
         THEN to([c EXCEPT !.pc = "SaveHotStateSummary", !.r = c.blockRoot])
         ELSE IF B = 0
         THEN to([c EXCEPT !.pc = "Lock", !.r = GenesisRoot])
         ELSE to([c EXCEPT !.pc = "BlockRoots"])
    ELSE IF c.pc = "BlockRoots"
    THEN LET rs == BlockRoots(B, B) IN
         IF Len(rs) = 0 THEN to([c EXCEPT !.pc = "handleLastValidState"])
         ELSE IF Len(rs) = 1 THEN to([c EXCEPT !.pc = "Lock", !.r = rs[1]])
         ELSE return("incorrect length for epoch boundary root")
    ELSE IF c.pc = "handleLastValidState"
    THEN LET rs == BlockRoots(splitSlot, B) IN
         IF Len(rs) = 0 THEN return(IndexOutOfRange)
         ELSE to([c EXCEPT !.pc = "State", !.r = rs[Len(rs)],
                           !.start = EpochBoundaryRoot(cache, B - SlotsPerEpoch)])
    ELSE IF c.pc = "State"
    THEN LET startState == IF c.start \in DOMAIN st THEN st[c.start] ELSE Absent IN
         IF startState = Absent THEN return(NilDeref)
         ELSE LET l == LoadBlocks(startState.slot + 1, B, c.r) IN
              IF l.err # "" THEN return(l.err)
              ELSE LET p == ReplayBlocks(startState, l.blks, B) IN
                   IF p.err # "" THEN return(p.err)
                   ELSE to([c EXCEPT !.pc = "backfill", !.st = p.state])
    ELSE IF c.pc = "backfill"
    THEN [frame |-> [c EXCEPT !.pc = "Lock"], states |-> SaveState(st, c.r, c.st),
          summaries |-> sm, cache |-> cache]
    ELSE IF c.pc = "Lock"
    THEN to([c EXCEPT !.pc = "mapWrite"])
    ELSE IF c.pc = "mapWrite"
    THEN [frame |-> [c EXCEPT !.pc = "SaveHotStateSummary"], states |-> st,
          summaries |-> sm, cache |-> SetEpochBoundaryRoot(cache, B, c.r)]
    ELSE [frame |-> [c EXCEPT !.pc = "return"], states |-> st, cache |-> cache,
          summaries |-> SaveHotStateSummary(sm,
              [slot |-> c.state.slot, latestRoot |-> c.blockRoot, boundaryRoot |-> c.r])]

\* the store is built by block arrivals and saveHotState calls one after
\* the other
SetUpPar ==
    /\ call = Idle
    /\ (SaveBlock \/ CallSaveHotState \/ Return)

BeginPar ==
    /\ call = Idle
    /\ result = None
    /\ Len(blocks) <= MaxParBlocks
    /\ \E r1 \in Roots, r2 \in Roots :
          /\ r1 <= r2
          /\ HasParentState(r1)
          /\ HasParentState(r2)
          /\ call' = [pc |-> "par",
                      snap |-> [states |-> states, summaries |-> summaries,
                                cache |-> epochBoundarySlotToRoot],
                      t |-> <<ParEnter(r1, PostState(r1)), ParEnter(r2, PostState(r2))>>]
    /\ UNCHANGED <<blocks, states, summaries, epochBoundarySlotToRoot, splitSlot, result>>

StepPar ==
    /\ call.pc = "par"
    /\ \E i \in Callers :
          LET c == call.t[i]
              o == call.t[3 - i]
          IN /\ ParEnabled(c, o)
             /\ \E seen \in ParSeen(c, o) :
                   LET n == ParStep(c, o, states, summaries, epochBoundarySlotToRoot, seen)
                   IN /\ call' = [call EXCEPT !.t =
                                     IF n.frame.pc = "fatal"
                                     THEN [j \in Callers |->
                                              [call.t[j] EXCEPT !.pc = "fatal", !.err = Fatal]]
                                     ELSE [call.t EXCEPT ![i] = n.frame]]
                      /\ states' = n.states
                      /\ summaries' = n.summaries
                      /\ epochBoundarySlotToRoot' = n.cache
    /\ UNCHANGED <<blocks, splitSlot, result>>

NextPar ==
    \/ SetUpPar
    \/ BeginPar
    \/ StepPar

SpecPar == Init /\ [][NextPar]_vars

(***************************************************************************)
(* Properties of LoadBlocks, under SpecBlocks                              *)
(***************************************************************************)
LoadBlocksReturned == result.kind = "LoadBlocks"
LoadBlocksSucceeded == LoadBlocksReturned /\ result.out.err = ""
InWindow(r, startSlot, endSlot) ==
    blocks[r].slot >= startSlot /\ blocks[r].slot <= endSlot
SeqToSet(s) == {s[i] : i \in DOMAIN s}

\* the blocks on the parent path of r, r and genesis included
ParentPath(r) == {a \in Roots : IsAncestorOrSelf(a, r)}

\* C4: a successful LoadBlocks returns a leaf-first list: element 1 is the
\* block of endRoot and every later element is the parent of the one before.
C4_LeafFirst ==
    LoadBlocksSucceeded =>
        LET blks == result.out.blks IN
        /\ Len(blks) >= 1
        /\ blks[1] = result.root
        /\ \A i \in 2..Len(blks) : blks[i] = blocks[blks[i - 1]].parent

\* a load over a fork that returned three blocks or more
C4_Witness ==
    /\ LoadBlocksSucceeded
    /\ Len(result.out.blks) >= 3
    /\ \E r \in Roots : /\ InWindow(r, result.startSlot, result.endSlot)
                        /\ ~InSeq(r, result.out.blks)

\* C5: a successful LoadBlocks returns exactly the blocks of the parent
\* path from endRoot whose slot lies in the window, each once.
C5_ExactlyThePath ==
    LoadBlocksSucceeded =>
        LET blks == result.out.blks IN
        /\ SeqToSet(blks) =
              {a \in ParentPath(result.root) : InWindow(a, result.startSlot, result.endSlot)}
        /\ Cardinality(SeqToSet(blks)) = Len(blks)

\* a load whose path passes one of two siblings at the same slot, and
\* leaves a block of the window off the path
C5_Witness ==
    /\ LoadBlocksSucceeded
    /\ Len(result.out.blks) >= 2
    /\ \E a \in SeqToSet(result.out.blks), b \in Roots :
          /\ a # b
          /\ a # result.root
          /\ blocks[a].slot = blocks[b].slot
          /\ blocks[a].parent = blocks[b].parent
          /\ ~InSeq(b, result.out.blks)

\* C6 as stated: an end block outside the window always gives "end block
\* roots don't match" (read here for the windows with startSlot <= endSlot).
C6_Original ==
    (/\ LoadBlocksReturned
     /\ result.startSlot <= result.endSlot
     /\ ~InWindow(result.root, result.startSlot, result.endSlot)) =>
        /\ result.out.err = "end block roots don't match"
        /\ result.out.blks = <<>>

\* C6 amended: an end block outside the window makes LoadBlocks fail and
\* return no blocks; the error is "end block roots don't match" when the
\* store holds a block in the window, and NotFound when it holds none.
C6_EndOutsideWindow ==
    (LoadBlocksReturned /\ ~InWindow(result.root, result.startSlot, result.endSlot)) =>
        /\ result.out.blks = <<>>
        /\ result.out.err =
              IF \E r \in Roots : InWindow(r, result.startSlot, result.endSlot)
              THEN "end block roots don't match" ELSE "NotFound"

\* the end block lies after a window that holds blocks
C6_Witness ==
    /\ LoadBlocksReturned
    /\ blocks[result.root].slot > result.endSlot
    /\ \E r \in Roots : InWindow(r, result.startSlot, result.endSlot)
    /\ result.out.err = "end block roots don't match"

\* C10 as stated: the last element returned has slot <= startSlot, the
\* others lie in the window.
C10_Original ==
    LoadBlocksSucceeded =>
        LET blks == result.out.blks IN
        /\ blocks[blks[Len(blks)]].slot <= result.startSlot
        /\ \A i \in 1..(Len(blks) - 1) : InWindow(blks[i], result.startSlot, result.endSlot)

\* C10 amended: every element returned, the last included, has its slot in
\* [startSlot, endSlot]; the last element is the oldest block of the path in
\* the window: its parent is before startSlot or is no block at all.
C10_AllInWindow ==
    LoadBlocksSucceeded =>
        LET blks == result.out.blks
            last == blks[Len(blks)]
        IN
        /\ \A i \in 1..Len(blks) : InWindow(blks[i], result.startSlot, result.endSlot)
        /\ \/ blocks[last].parent = ZeroRoot
           \/ blocks[blocks[last].parent].slot < result.startSlot

\* a load whose last element is after startSlot
C10_Witness ==
    /\ LoadBlocksSucceeded
    /\ Len(result.out.blks) >= 2
    /\ blocks[result.out.blks[Len(result.out.blks)]].slot > result.startSlot

(***************************************************************************)
(* Properties of the hot path, under Spec                                  *)
(***************************************************************************)
\* the last block of the parent path of r with slot <= slot
LastOnPathAtOrBefore(r, slot) ==
    CHOOSE a \in ParentPath(r) :
        /\ blocks[a].slot <= slot
        /\ \A b \in ParentPath(r) : blocks[b].slot <= slot => blocks[b].slot <= blocks[a].slot

\* C1: loadHotStateByRoot of a root saved by saveHotState returns, without
\* error, the state that was saved: its slot is the saved slot and it is
\* the replay of the blocks of the root's ancestry.
C1_RoundTrip ==
    (result.kind = "loadHotStateByRoot" /\ result.root \in DOMAIN summaries) =>
        /\ result.out.err = ""
        /\ result.out.state.slot = blocks[result.root].slot
        /\ result.out.state = PostState(result.root)

\* C2: every summary saveHotState persisted has its boundary state in the
\* database.
C2_BoundaryStatePresent ==
    \A r \in DOMAIN summaries : summaries[r].boundaryRoot \in DOMAIN states

\* C3: the boundary root of every persisted summary is the last block of
\* the root's own ancestry at or before the epoch start of its slot.
C3_BoundaryIsAncestor ==
    \A r \in DOMAIN summaries :
        summaries[r].boundaryRoot = LastOnPathAtOrBefore(r, EpochStart(summaries[r].slot))

\* C7: a read returns the same with the epoch boundary cache dropped as
\* with the cache as it is (read here for the reads that succeed with the
\* cache as it is).
C7_CacheDropTransparent ==
    /\ (result.kind = "loadHotIntermediateStateWithSlot" /\ result.out.err = "") =>
          LoadHotIntermediateStateWithSlot(<<>>, result.slot) = result.out
    /\ (result.kind = "loadHotStateByRoot" /\ result.out.err = "") =>
          LoadHotStateByRoot(result.root) = result.out

\* C8: a second saveHotState(root, state) right after a successful first one
\* succeeds and leaves the states, the summaries and the cache as the first
\* call left them.
C8_Idempotent ==
    (result.kind = "saveHotState" /\ result.err = "") =>
        LET again == SaveHotStateOn(states, summaries, epochBoundarySlotToRoot,
                                    result.root, PostState(result.root))
        IN /\ again.err = ""
           /\ again.states = states
           /\ again.summaries = summaries
           /\ again.cache = epochBoundarySlotToRoot

\* a first call that went through the skip-slot backfill: it wrote the
\* boundary state under an older root and cached that root
C8_Witness ==
    /\ result.kind = "saveHotState" /\ result.err = ""
    /\ ~IsEpochStart(blocks[result.root].slot)
    /\ LET b == summaries[result.root].boundaryRoot IN
       /\ b # GenesisRoot
       /\ b \in DOMAIN states
       /\ states[b].slot > blocks[b].slot
       /\ EpochStart(blocks[result.root].slot) \in DOMAIN epochBoundarySlotToRoot

(***************************************************************************)
(* Properties of the steps of saveHotState, under SpecSteps                *)
(***************************************************************************)
\* C9: in a saveHotState call on an epoch start the state write comes
\* before the summary write: the call reaches the summary write only with
\* the state under its root in the database, a failed state write returns
\* the error with no summary written, and no summary of an epoch-start
\* state is ever in the database without a state under its root.
C9_StateBeforeSummary ==
    /\ \A r \in DOMAIN summaries :
          IsEpochStart(summaries[r].slot) => r \in DOMAIN states
    /\ (call # Idle /\ IsEpochStart(call.state.slot)
          /\ call.pc \in {"loadEpochBoundaryRoot", "SaveHotStateSummary"}) =>
          /\ call.blockRoot \in DOMAIN states
          /\ summaries = call.entry
    /\ (call # Idle /\ call.pc = "return" /\ call.err # "") => summaries = call.entry

\* the call has written the state of an epoch-start block that has no
\* summary yet, and is about to write the summary
C9_Witness ==
    /\ call # Idle
    /\ call.pc = "SaveHotStateSummary"
    /\ IsEpochStart(call.state.slot)
    /\ call.blockRoot # GenesisRoot
    /\ call.blockRoot \in DOMAIN states
    /\ call.blockRoot \notin DOMAIN summaries

(***************************************************************************)
(* Properties of the epoch boundary cache, under Spec                      *)
(***************************************************************************)
SaveHotStateReturned == result.kind = "saveHotState"
SaveHotStateSucceeded == SaveHotStateReturned /\ result.err = ""

\* C11: a saveHotState(root, state) that succeeds for a state on an epoch
\* start B, called with no cache entry at B, leaves the cache mapping B to
\* root.
C11_EpochStartCached ==
    [][(/\ result = None
        /\ SaveHotStateSucceeded'
        /\ IsEpochStart(blocks[result'.root].slot)
        /\ blocks[result'.root].slot \notin DOMAIN epochBoundarySlotToRoot) =>
          /\ blocks[result'.root].slot \in DOMAIN epochBoundarySlotToRoot'
          /\ epochBoundarySlotToRoot'[blocks[result'.root].slot] = result'.root]_vars

IncorrectLength == "incorrect length for epoch boundary root"

\* C12: with no cache entry for the boundary slot B > 0 of the state, a
\* state not on B, and more than one block root stored at B, saveHotState
\* returns "incorrect length for epoch boundary root", writes no summary,
\* and leaves the cache (and the states) as they were.
C12_IncorrectLength ==
    [][(/\ result = None
        /\ SaveHotStateReturned'
        /\ LET slot == blocks[result'.root].slot
               B == EpochStart(slot)
           IN /\ B > 0
              /\ slot # B
              /\ B \notin DOMAIN epochBoundarySlotToRoot
              /\ Len(BlockRoots(B, B)) > 1) =>
          /\ result'.err = IncorrectLength
          /\ summaries' = summaries
          /\ epochBoundarySlotToRoot' = epochBoundarySlotToRoot
          /\ states' = states]_vars

\* a saveHotState returned the error for a block after a boundary slot
\* that holds two blocks
C12_Witness ==
    /\ SaveHotStateReturned
    /\ result.err = IncorrectLength
    /\ result.root \notin DOMAIN summaries
    /\ LET B == EpochStart(blocks[result.root].slot) IN
       /\ B > 0
       /\ B \notin DOMAIN epochBoundarySlotToRoot
       /\ Len(BlockRoots(B, B)) = 2

\* the saveHotState that returned went through the skip-slot backfill: the
\* boundary slot B > 0 of its state holds no block, the state is not on B,
\* and the call found no cache entry at B
BackfillCase(cacheBefore, root) ==
    LET slot == blocks[root].slot
        B == EpochStart(slot)
    IN /\ B > 0
       /\ slot # B
       /\ B \notin DOMAIN cacheBefore
       /\ Len(BlockRoots(B, B)) = 0

\* r is a block at the last slot <= B that holds a block
LastBlockAtOrBefore(r, B) ==
    /\ r \in Roots
    /\ blocks[r].slot <= B
    /\ \A a \in Roots : blocks[a].slot <= B => blocks[a].slot <= blocks[r].slot

\* C13: the skip-slot backfill succeeds: the boundary root it resolves is
\* the root of the last block with slot <= B, the database then holds a
\* state of slot B under that root, and the cache maps B to that root.
C13_Backfill ==
    [][(/\ result = None
        /\ SaveHotStateReturned'
        /\ BackfillCase(epochBoundarySlotToRoot, result'.root)) =>
          LET B == EpochStart(blocks[result'.root].slot) IN
          /\ result'.err = ""
          /\ B \in DOMAIN epochBoundarySlotToRoot'
          /\ LET r == epochBoundarySlotToRoot'[B] IN
             /\ LastBlockAtOrBefore(r, B)
             /\ summaries'[result'.root].boundaryRoot = r
             /\ r \in DOMAIN states'
             /\ states'[r].slot = B]_vars

\* C14: a skip-slot backfill for boundary slot B that finds no cache entry
\* for B - SlotsPerEpoch either resolves or fails with MissingBoundary; it
\* does not go on to dereference the absent state of the zero root, and
\* when it fails it leaves the states, the summaries and the cache as they
\* were.
C14_MissingBoundary ==
    [][(/\ result = None
        /\ SaveHotStateReturned'
        /\ BackfillCase(epochBoundarySlotToRoot, result'.root)
        /\ (EpochStart(blocks[result'.root].slot) - SlotsPerEpoch)
              \notin DOMAIN epochBoundarySlotToRoot) =>
          /\ result'.err \in {"", "MissingBoundary"}
          /\ result'.err # NilDeref
          /\ result'.err # "" =>
                /\ states' = states
                /\ summaries' = summaries
                /\ epochBoundarySlotToRoot' = epochBoundarySlotToRoot]_vars

ReadReturned ==
    result.kind \in {"loadHotStateByRoot", "loadHotIntermediateStateWithSlot",
                     "HotStateExists"}

\* C16: a read (loadHotStateByRoot, loadHotIntermediateStateWithSlot,
\* HotStateExists) leaves the states, the summaries and the cache as they
\* were, whether it succeeds or fails; and a state is written under a root
\* only by saveHotState, either as the state handed in on an epoch start
\* or as the slot-B state of a successful skip-slot backfill.
C16_ReadsWriteNothing ==
    [][/\ (result = None /\ ReadReturned') =>
             /\ states' = states
             /\ summaries' = summaries
             /\ epochBoundarySlotToRoot' = epochBoundarySlotToRoot
       /\ \A r \in DOMAIN states' :
             (r \notin DOMAIN states \/ states'[r] # states[r]) =>
                /\ SaveHotStateReturned'
                /\ \/ /\ r = result'.root
                      /\ IsEpochStart(blocks[r].slot)
                      /\ states'[r] = PostState(r)
                   \/ /\ BackfillCase(epochBoundarySlotToRoot, result'.root)
                      /\ result'.err = ""
                      /\ LET B == EpochStart(blocks[result'.root].slot) IN
                         /\ r = epochBoundarySlotToRoot'[B]
                         /\ states'[r].slot = B]_vars

\* a read by slot failed on a cache miss at a boundary slot without a
\* block, in a database that holds an anchor state written by a backfill
C16_Witness ==
    /\ result.kind = "loadHotIntermediateStateWithSlot"
    /\ result.out.err = "epoch boundary root is not cached"
    /\ EpochStart(result.slot) > 0
    /\ Len(BlockRoots(EpochStart(result.slot), EpochStart(result.slot))) = 0
    /\ \E r \in DOMAIN states : states[r].slot # blocks[r].slot

(***************************************************************************)
(* Properties of the reads by slot, under Spec                             *)
(***************************************************************************)
\* C19: loadHotIntermediateStateWithSlot(slot), for a slot after the split
\* slot whose boundary root is cached and whose boundary state is in the
\* database, succeeds and returns a state of the requested slot, also
\* when the slot holds no block and when no block lies between the
\* boundary and the slot.
C19_IntermediateLoads ==
    (/\ result.kind = "loadHotIntermediateStateWithSlot"
     /\ result.slot > splitSlot
     /\ EpochStart(result.slot) \in DOMAIN epochBoundarySlotToRoot
     /\ epochBoundarySlotToRoot[EpochStart(result.slot)] \in DOMAIN states) =>
        /\ result.out.err = ""
        /\ result.out.state.slot = result.slot

(***************************************************************************)
(* Properties of the range queries from the split slot, under SpecSplit    *)
(***************************************************************************)
\* C20: handleLastValidState(B) and getLastValidBlock(targetSlot) never
\* take the last element of an empty result of the block root query over
\* [split slot, B] (resp. [split slot, targetSlot]): no call ends in an
\* index out of range, and the last root they take is a stored block.
C20_RangeNonEmpty ==
    /\ SaveHotStateReturned => result.err # IndexOutOfRange
    /\ result.kind = "loadHotIntermediateStateWithSlot" =>
          /\ result.out.err # IndexOutOfRange
          /\ GetLastValidBlock(result.slot).err = "" =>
                GetLastValidBlock(result.slot).root \in Roots

(***************************************************************************)
(* Properties of parallel callers, under SpecPar                           *)
(***************************************************************************)
\* C17: every access to the cache map is made under the lock: no caller is
\* at the map read at the top of loadEpochBoundaryRoot, which takes no
\* lock, while the other caller is inside setEpochBoundaryRoot writing the
\* map.
C17_CacheUnderLock ==
    call.pc = "par" =>
        \A i \in Callers :
            ~(call.t[i].pc = "mapRead" /\ call.t[3 - i].pc = "mapWrite")

\* the store two parallel calls leave once both are over
ParFinal ==
    [states |-> states, summaries |-> summaries, cache |-> epochBoundarySlotToRoot]

\* the store saveHotState(a, ..) followed by saveHotState(b, ..) leave
OneAfterTheOther(snap, a, b) ==
    LET first == SaveHotStateOn(snap.states, snap.summaries, snap.cache, a, PostState(a))
        second == SaveHotStateOn(first.states, first.summaries, first.cache, b, PostState(b))
    IN [states |-> second.states, summaries |-> second.summaries, cache |-> second.cache]

ParOver == call.pc = "par" /\ \A i \in Callers : call.t[i].pc \in {"return", "fatal"}

\* C18: two saveHotState calls in parallel are serializable: when both are
\* over, the states, the summaries and the cache are those one of the two
\* orders of the calls, one after the other, leaves.
C18_Serializable ==
    ParOver =>
        ParFinal \in {OneAfterTheOther(call.snap, call.t[1].blockRoot, call.t[2].blockRoot),
                      OneAfterTheOther(call.snap, call.t[2].blockRoot, call.t[1].blockRoot)}

====
